---- MODULE Spec2Model ----
(***************************************************************************)
(* A model of steiner(nodes, edges, required) of src/steiner.js: the       *)
(* approximate Steiner tree search.  One behaviour is one call.            *)
(*                                                                         *)
(* Objects are modelled by their position: a caller's node is a natural    *)
(* number, an annotated node (xnode) is its 1-based index in xnodes, an    *)
(* annotated edge (xedge) is its 1-based index in xedges, and a reference  *)
(* to the caller's k-th edge object is EdgeRef(k).  The JavaScript loop    *)
(* index i (0-based) is the variable i (1-based): i = Len(xnodes) + 1 is   *)
(* the exit of the for loop of line 138.                                   *)
(*                                                                         *)
(* The fields incoming, in_solution and in_first_component of the          *)
(* annotated records are written once at construction and read by no line  *)
(* of steiner.js; they are left out.                                       *)
(***************************************************************************)
EXTENDS Integers, Sequences, FiniteSets

\* ---------------------------------------------------------------- bounds
MaxNodes == 3
MaxEdges == 3
MaxWeight == 2
MaxBadEdges == 2
MaxRepair == 1
ConnNodes == 4
MaxDetour == 4
ForestNodes == 5
TwinNodes == 3

VARIABLES
  nodes,          \* the caller's nodes (line 15)
  edges,          \* the caller's edges: records [from, to, weight] (line 15)
  required,       \* the caller's required nodes (line 15)
  xnodes,         \* line 16
  xedges,         \* line 17
  reqds,          \* line 30
  solved_reqds,   \* line 95
  soln,           \* line 96: a sequence of xedges
  i,              \* line 136
  fNonemptyFifo,  \* line 128
  result,         \* the returned sequence (line 247)
  pc,             \* the position of the call
  log             \* the pops of the queues so far (line 151), in order

vars == <<nodes, edges, required, xnodes, xedges, reqds, solved_reqds, soln,
          i, fNonemptyFifo, result, pc, log>>

\* ------------------------------------------------------- sequence helpers
Range(s) == {s[k] : k \in DOMAIN s}

\* All sequences over S of length at most n.
SeqsUpTo(S, n) == UNION {[1..k -> S] : k \in 0..n}

\* The elements of the set of numbers S in ascending order.
RECURSIVE SetToSeq(_)
SetToSeq(S) ==
  IF S = {} THEN <<>>
  ELSE LET m == CHOOSE x \in S : \A y \in S : x <= y
       IN <<m>> \o SetToSeq(S \ {m})

\* ------------------------------------------------- construction (16-112)
\* The reference to the caller's k-th edge object.
EdgeRef(k) == <<"edge", k>>

\* witness: null (line 47)
NullWitness == [node |-> 0, path |-> <<>>]

\* lines 23-28
is_reqd(n) == \E k \in DOMAIN required : required[k] = n

\* lines 53-57: the first xnode whose node is n; 0 stands for undefined.
RECURSIVE get_xnode_from(_, _, _)
get_xnode_from(ns, n, k) ==
  IF k > Len(ns) THEN 0
  ELSE IF ns[k] = n THEN k
  ELSE get_xnode_from(ns, n, k + 1)

get_xnode(ns, n) == get_xnode_from(ns, n, 1)

\* line 69 or 70 throws a TypeError when get_xnode returned undefined.
BuildThrows ==
  \E k \in DOMAIN edges :
    \/ get_xnode(nodes, edges[k].from) = 0
    \/ get_xnode(nodes, edges[k].to) = 0

\* lines 60-67
MakeXedge(k) ==
  [edge   |-> EdgeRef(k),
   from   |-> get_xnode(nodes, edges[k].from),
   to     |-> get_xnode(nodes, edges[k].to),
   weight |-> edges[k].weight]

MakeXedges == [k \in DOMAIN edges |-> MakeXedge(k)]

\* line 69: the xedges pushed on xnode k's outgoing list, in edge order.
RECURSIVE OutgoingOf(_, _, _)
OutgoingOf(xes, k, e) ==
  IF e > Len(xes) THEN <<>>
  ELSE IF xes[e].from = k THEN <<e>> \o OutgoingOf(xes, k, e + 1)
  ELSE OutgoingOf(xes, k, e + 1)

\* lines 38-49, then lines 107-112 for a required node.
MakeXnode(k, xes) ==
  [node             |-> nodes[k],
   reqd             |-> is_reqd(nodes[k]),
   outgoing         |-> OutgoingOf(xes, k, 1),
   in_permanent_web |-> FALSE,
   in_temporary_web |-> FALSE,
   witness          |-> NullWitness,
   fifo             |-> IF is_reqd(nodes[k])
                        THEN <<[point |-> k, path |-> <<>>, endweight |-> 0]>>
                        ELSE <<>>]

\* lines 30-36
CountReqd == Cardinality({k \in DOMAIN nodes : is_reqd(nodes[k])})

\* lines 16-112: the annotated copy, or the TypeError of line 69/70.
Build ==
  /\ pc = "start"
  /\ IF BuildThrows
     THEN /\ pc' = "error"
          /\ UNCHANGED <<xnodes, xedges, reqds>>
     ELSE /\ xedges' = MakeXedges
          /\ xnodes' = [k \in DOMAIN nodes |-> MakeXnode(k, MakeXedges)]
          /\ reqds' = CountReqd
          /\ pc' = "outer"
  /\ UNCHANGED <<nodes, edges, required, solved_reqds, soln, i,
                 fNonemptyFifo, result, log>>

\* ------------------------------------------------------ the search (123-232)
\* lines 191-194, 213-216: in_permanent_web = true on every node of S.
MarkPermanent(xn, S) ==
  [k \in DOMAIN xn |->
     IF k \in S THEN [xn[k] EXCEPT !.in_permanent_web = TRUE] ELSE xn[k]]

\* step.from of every step of a path.
FromsOf(es) == {xedges[es[k]].from : k \in DOMAIN es}

\* TerminalMerge without the closing edge of line 190.
TerminalMergeNoClosing(n, path, e, st) ==
  LET to  == xedges[e].to
      xn2 == MarkPermanent(st.xnodes, FromsOf(path) \cup {to})
  IN [st EXCEPT !.soln = st.soln \o path,
                !.xnodes = xn2,
                !.solved_reqds = st.solved_reqds + 1,
                !.found = TRUE, !.merge = "terminal"]

\* TerminalMerge with the test of line 195 made before the marking of
\* line 194.
TerminalMergeTestFirst(n, path, e, st) ==
  LET to  == xedges[e].to
      xn2 == MarkPermanent(st.xnodes, FromsOf(path) \cup {to})
  IN [st EXCEPT !.soln = st.soln \o path \o <<e>>,
                !.xnodes = xn2,
                !.solved_reqds =
                   IF ~st.xnodes[to].in_permanent_web THEN st.solved_reqds + 2
                   ELSE st.solved_reqds + 1,
                !.found = TRUE, !.merge = "terminal"]

\* lines 190-200: the step leads to a required node or to the permanent web.
TerminalMerge(n, path, e, st) ==
  LET to  == xedges[e].to
      xn2 == MarkPermanent(st.xnodes, FromsOf(path) \cup {to})
  IN [st EXCEPT !.soln = st.soln \o path \o <<e>>,
                !.xnodes = xn2,
                !.solved_reqds =
                   IF ~xn2[to].in_permanent_web THEN st.solved_reqds + 2
                   ELSE st.solved_reqds + 1,
                !.found = TRUE, !.merge = "terminal"]

\* lines 211-218: the step leads to another node's temporary path.
CollisionMerge(n, path, e, st) ==
  LET to        == xedges[e].to
      new_edges == path \o st.xnodes[to].witness.path \o <<e>>
  IN [st EXCEPT !.soln = st.soln \o new_edges,
                !.xnodes = MarkPermanent(st.xnodes, FromsOf(new_edges) \cup {to}),
                !.solved_reqds = st.solved_reqds + 2,
                !.found = TRUE, !.merge = "collision"]

\* PushStep giving every step the endweight of a unit edge.
PushStepUnit(n, path, e, st) ==
  LET new_path  == path \o <<e>>
      new_ppath == [point |-> xedges[e].to, path |-> new_path,
                    endweight |-> 1]
  IN [st EXCEPT !.xnodes[n].fifo = Append(@, new_ppath)]

\* lines 220-222
PushStep(n, path, e, st) ==
  LET new_path  == path \o <<e>>
      new_ppath == [point |-> xedges[e].to, path |-> new_path,
                    endweight |-> xedges[e].weight]
  IN [st EXCEPT !.xnodes[n].fifo = Append(@, new_ppath)]

\* LeadsToSolved without the test to !== n of line 183.
LeadsToAnyRequired(n, to, t) == t.reqd \/ t.in_permanent_web

\* line 183: t is the annotated node to.
LeadsToSolved(n, to, t) == (t.reqd /\ to # n) \/ t.in_permanent_web

\* lines 173-223: the loop over p.outgoing from index j (1-based).  st holds
\* xnodes, soln and solved_reqds as the loop has left them; found is
\* j < p.outgoing.length at line 224, threw is the TypeError of line 209 on a
\* null witness, merge is the branch that appended to soln.
RECURSIVE ExamineEdges(_, _, _, _, _)
ExamineEdges(n, p, path, j, st) ==
  IF j > Len(st.xnodes[p].outgoing) THEN st
  ELSE
    LET e  == st.xnodes[p].outgoing[j]
        to == xedges[e].to
        t  == st.xnodes[to]
    IN IF LeadsToSolved(n, to, t)
       THEN TerminalMerge(n, path, e, st)
       ELSE IF t.in_temporary_web
       THEN IF t.witness = NullWitness
            THEN [st EXCEPT !.threw = TRUE]
            ELSE IF t.witness.node = n
            THEN ExamineEdges(n, p, path, j + 1, st)
            ELSE CollisionMerge(n, path, e, st)
       ELSE ExamineEdges(n, p, path, j + 1, PushStep(n, path, e, st))

\* line 123
OuterTest ==
  /\ pc = "outer"
  /\ IF solved_reqds < reqds
     THEN /\ pc' = "for"
          /\ i' = 1
          /\ fNonemptyFifo' = FALSE
     ELSE /\ pc' = "connect"
          /\ UNCHANGED <<i, fNonemptyFifo>>
  /\ UNCHANGED <<nodes, edges, required, xnodes, xedges, reqds,
                 solved_reqds, soln, result, log>>

\* lines 146-149: the node is not stepped.
Skipped(n) ==
  \/ ~xnodes[n].reqd
  \/ xnodes[n].fifo = <<>>
  \/ xnodes[n].in_permanent_web

\* lines 145-149
Skip ==
  /\ pc = "for"
  /\ i <= Len(xnodes)
  /\ Skipped(i)
  /\ i' = i + 1
  /\ UNCHANGED <<nodes, edges, required, xnodes, xedges, reqds,
                 solved_reqds, soln, fNonemptyFifo, result, pc, log>>

\* Decrement without the decrement of line 157.
NoDecrement(w) == w

\* line 157
Decrement(w) == w - 1

\* line 156
NotArrived(ppath) == ppath.endweight > 1

\* One pop of the queue of owner (line 151): op is what the pop did with the
\* partial path, merge and delta what the step did to soln and solved_reqds.
Pop(op, owner, ppath, merge, delta) ==
  [op |-> op, owner |-> owner, point |-> ppath.point, path |-> ppath.path,
   merge |-> merge, delta |-> delta]

\* lines 150-160: the head of the queue has not arrived yet.
Requeue ==
  /\ pc = "for"
  /\ i <= Len(xnodes)
  /\ ~Skipped(i)
  /\ NotArrived(Head(xnodes[i].fifo))
  /\ fNonemptyFifo' = TRUE
  /\ LET ppath == Head(xnodes[i].fifo)
     IN /\ xnodes' = [xnodes EXCEPT ![i].fifo =
                        Append(Tail(@),
                               [ppath EXCEPT !.endweight = Decrement(@)])]
        /\ log' = Append(log, Pop("requeue", i, ppath, "none", 0))
  /\ i' = i + 1
  /\ UNCHANGED <<nodes, edges, required, xedges, reqds, solved_reqds,
                 soln, result, pc>>

\* Arrive without the witness of line 171.
ArriveNoWitness(n) ==
  LET ppath == Head(xnodes[n].fifo)
      p     == ppath.point
      xn1   == [xnodes EXCEPT ![n].fifo = Tail(@)]
  IN [xn1 EXCEPT ![p].in_temporary_web = TRUE]

\* lines 150-151, 161-171: shift the head, mark its point.
Arrive(n) ==
  LET ppath == Head(xnodes[n].fifo)
      p     == ppath.point
      xn1   == [xnodes EXCEPT ![n].fifo = Tail(@)]
  IN [xn1 EXCEPT ![p].in_temporary_web = TRUE,
                 ![p].witness = [node |-> n, path |-> ppath.path]]

\* BreaksPass without the break of line 225.
BreaksPassNever(st) == FALSE

\* lines 224-225: the loop over the edges was left by a break.
BreaksPass(st) == st.found

\* lines 150-151, 161-225: the head of the queue arrives at its point.
Expand ==
  /\ pc = "for"
  /\ i <= Len(xnodes)
  /\ ~Skipped(i)
  /\ ~NotArrived(Head(xnodes[i].fifo))
  /\ fNonemptyFifo' = TRUE
  /\ LET ppath == Head(xnodes[i].fifo)
         st0   == [xnodes |-> Arrive(i), soln |-> soln,
                   solved_reqds |-> solved_reqds,
                   found |-> FALSE, threw |-> FALSE, merge |-> "none"]
         st    == ExamineEdges(i, ppath.point, ppath.path, 1, st0)
     IN /\ xnodes' = st.xnodes
        /\ soln' = st.soln
        /\ solved_reqds' = st.solved_reqds
        /\ log' = Append(log, Pop("expand", i, ppath, st.merge,
                                  st.solved_reqds - solved_reqds))
        /\ IF st.threw THEN pc' = "error" /\ i' = i
           ELSE IF BreaksPass(st) THEN pc' = "outer" /\ i' = i
           ELSE pc' = "for" /\ i' = i + 1
  /\ UNCHANGED <<nodes, edges, required, xedges, reqds, result>>

\* Exhausted without the test of line 230.
ExhaustedNever(f) == FALSE

\* line 230: no queue had a partial path in this pass.
Exhausted(f) == ~f

\* lines 227-231, at the exit of the for loop (i = xnodes.length).
PassEnd ==
  /\ pc = "for"
  /\ i = Len(xnodes) + 1
  /\ IF Exhausted(fNonemptyFifo)
     THEN /\ pc' = "connect"
          /\ UNCHANGED <<i, fNonemptyFifo>>
     ELSE /\ pc' = "for"
          /\ i' = 1
          /\ fNonemptyFifo' = FALSE
  /\ UNCHANGED <<nodes, edges, required, xnodes, xedges, reqds,
                 solved_reqds, soln, result, log>>

\* ------------------------------------------- connectivity repair (241)
\* The nodes an undirected walk along the edges of es reaches from S.
RECURSIVE Reach(_, _)
Reach(S, es) ==
  LET T == S \cup {xedges[es[k]].to : k \in {x \in DOMAIN es : xedges[es[x]].from \in S}}
                \cup {xedges[es[k]].from : k \in {x \in DOMAIN es : xedges[es[x]].to \in S}}
  IN IF T = S THEN S ELSE Reach(T, es)

EndpointsOf(es) ==
  {xedges[es[k]].from : k \in DOMAIN es} \cup {xedges[es[k]].to : k \in DOMAIN es}

\* The edges of es form one component.
SolnConnected(es) ==
  \/ es = <<>>
  \/ Reach({xedges[es[1]].from}, es) = EndpointsOf(es)

\* connect.js is not among the source files.  Its contract: it returns an
\* augmented solution, removes no edge, and returns a connected solution
\* unchanged.  Any such result is allowed.
connect(es, out) ==
  \E extra \in SeqsUpTo(DOMAIN xedges, MaxRepair) :
    /\ SolnConnected(es) => extra = <<>>
    /\ out = es \o extra

\* line 241
Connect ==
  /\ pc = "connect"
  /\ connect(soln, soln')
  /\ pc' = "return"
  /\ UNCHANGED <<nodes, edges, required, xnodes, xedges, reqds,
                 solved_reqds, i, fNonemptyFifo, result, log>>

\* ------------------------------------------------- normalizer (76-86, 247)
\* SamePair without the comparison of to of line 80.
SameFrom(a, b) == xedges[a].from = xedges[b].from

\* line 80
SamePair(a, b) == xedges[a].from = xedges[b].from /\ xedges[a].to = xedges[b].to

\* lines 78-84 from element k, retval being what has been kept.
RECURSIVE uniqueify_from(_, _, _)
uniqueify_from(es, k, retval) ==
  IF k > Len(es) THEN retval
  ELSE IF \E j \in DOMAIN retval : SamePair(retval[j], es[k])
  THEN uniqueify_from(es, k + 1, retval)
  ELSE uniqueify_from(es, k + 1, Append(retval, es[k]))

\* lines 76-86
uniqueify(es) == uniqueify_from(es, 1, <<>>)

\* ProjectEdge returning the annotated copy instead of its edge.
ProjectCopy(e) == <<"xedge", e>>

\* line 248
ProjectEdge(e) == xedges[e].edge

\* lines 247-249
Return ==
  /\ pc = "return"
  /\ LET u == uniqueify(soln)
     IN result' = [k \in DOMAIN u |-> ProjectEdge(u[k])]
  /\ pc' = "done"
  /\ UNCHANGED <<nodes, edges, required, xnodes, xedges, reqds,
                 solved_reqds, soln, i, fNonemptyFifo, log>>

\* ------------------------------------------------------------- the calls
EdgeRecords(N, W) == [from : N, to : N, weight : W]

\* The state at the entry of steiner, before line 16.
Entry(ns, es, rq) ==
  /\ nodes = ns
  /\ edges = es
  /\ required = rq
  /\ xnodes = <<>>
  /\ xedges = <<>>
  /\ reqds = 0
  /\ solved_reqds = 0
  /\ soln = <<>>
  /\ i = 0
  /\ fNonemptyFifo = FALSE
  /\ result = <<>>
  /\ pc = "start"
  /\ log = <<>>

\* Calls within the input contract: distinct nodes, edges between them with
\* positive integer weights, required a subset of the nodes.  The nodes are
\* numbered in the order of the array nodes.  required is listed in ascending
\* order: is_reqd, its only reader, tests membership alone.  The edges are
\* every sequence, so with repeated edges, self-loops and cycles.
InitContract ==
  \E N \in 0..MaxNodes :
    \E es \in SeqsUpTo(EdgeRecords(1..N, 1..MaxWeight), MaxEdges) :
      \E R \in SUBSET (1..N) :
        Entry([k \in 1..N |-> k], es, SetToSeq(R))

\* Calls whose edges or required list name the node N + 1, absent from nodes.
InitMalformed ==
  \E N \in 1..(MaxNodes - 1) :
    \E es \in SeqsUpTo(EdgeRecords(1..(N + 1), {1}), MaxBadEdges) :
      \E R \in SUBSET (1..(N + 1)) :
        /\ \/ N + 1 \in R
           \/ \E k \in DOMAIN es : es[k].from = N + 1 \/ es[k].to = N + 1
        /\ Entry([k \in 1..N |-> k], es, SetToSeq(R))

\* Calls with an edge whose weight is zero or negative.
InitBadWeight ==
  \E N \in 1..MaxNodes :
    \E es \in SeqsUpTo(EdgeRecords(1..N, (-1)..1), MaxBadEdges) :
      \E R \in SUBSET (1..N) :
        /\ \E k \in DOMAIN es : es[k].weight < 1
        /\ Entry([k \in 1..N |-> k], es, SetToSeq(R))

Next ==
  \/ Build
  \/ OuterTest
  \/ Skip
  \/ Requeue
  \/ Expand
  \/ PassEnd
  \/ Connect
  \/ Return

\* ------------------------------------------- calls on connected graphs
\* The pairs u < v of 1..N in lexicographic order.
PairsOf(N) == {<<u, v>> \in (1..N) \X (1..N) : u < v}

RECURSIVE PairSeq(_)
PairSeq(P) ==
  IF P = {} THEN <<>>
  ELSE LET m == CHOOSE x \in P : \A y \in P :
                  x[1] < y[1] \/ (x[1] = y[1] /\ x[2] <= y[2])
       IN <<m>> \o PairSeq(P \ {m})

\* Both directions of every pair of ps that w gives a weight (0: no edge).
RECURSIVE BothDirections(_, _)
BothDirections(ps, w) ==
  IF ps = <<>> THEN <<>>
  ELSE LET u == ps[1][1]
           v == ps[1][2]
       IN (IF w[ps[1]] = 0 THEN <<>>
           ELSE <<[from |-> u, to |-> v, weight |-> w[ps[1]]],
                  [from |-> v, to |-> u, weight |-> w[ps[1]]]>>)
          \o BothDirections(Tail(ps), w)

Reverse(s) == [k \in DOMAIN s |-> s[Len(s) + 1 - k]]

\* The nodes an undirected walk along the caller's edges reaches from S.
RECURSIVE InputReach(_, _)
InputReach(S, es) ==
  LET T == S \cup {es[k].to : k \in {x \in DOMAIN es : es[x].from \in S}}
             \cup {es[k].from : k \in {x \in DOMAIN es : es[x].to \in S}}
  IN IF T = S THEN S ELSE InputReach(T, es)

\* The caller's graph is connected.
InputConnected(ns, es) ==
  ns = <<>> \/ InputReach({ns[1]}, es) = Range(ns)

\* Every edge is supplied with its reverse.
BothWays(es) ==
  \A k \in DOMAIN es : \E m \in DOMAIN es :
    es[m].from = es[k].to /\ es[m].to = es[k].from

\* Calls on a connected graph of ConnNodes nodes, both directions of every
\* edge supplied, positive weights.
InitConn ==
  \E w \in [PairsOf(ConnNodes) -> 0..MaxWeight] :
    \E R \in SUBSET (1..ConnNodes) :
      \E rev \in BOOLEAN :
        LET ns == [k \in 1..ConnNodes |-> k]
            es == BothDirections(PairSeq(PairsOf(ConnNodes)), w)
        IN /\ InputConnected(ns, es)
           /\ Entry(ns, IF rev THEN Reverse(es) ELSE es, SetToSeq(R))

SpecConn == InitConn /\ [][Next]_vars

Init == InitContract \/ InitMalformed \/ InitBadWeight \/ InitConn

Spec == Init /\ [][Next]_vars

\* Calls within the input contract, on connected and disconnected graphs.
\* The call is synchronous and single-threaded: a step that can be taken is
\* taken.
Live == InitContract /\ [][Next]_vars /\ WF_vars(Next)

\* --------------------------------------- calls on the path A - B - C
\* The path and, with four nodes, a detour A - D - C of weights wd.
PathEdges(a, b, c) ==
  <<[from |-> a, to |-> b, weight |-> 2], [from |-> b, to |-> a, weight |-> 2],
    [from |-> b, to |-> c, weight |-> 3], [from |-> c, to |-> b, weight |-> 3]>>

DetourEdges(a, d, c, wd) ==
  <<[from |-> a, to |-> d, weight |-> wd[1]], [from |-> d, to |-> a, weight |-> wd[1]],
    [from |-> d, to |-> c, weight |-> wd[2]], [from |-> c, to |-> d, weight |-> wd[2]]>>

\* A detour is longer than the path from A to C.
DetourWeights == {wd \in (1..MaxDetour) \X (1..MaxDetour) : wd[1] + wd[2] > 2 + 3}

Injections(S, T) == {f \in [S -> T] : \A x, y \in S : x # y => f[x] # f[y]}

\* Three required nodes A, B, C in every order of the nodes, alone or with
\* a fourth node D on a longer detour, the edges in the order written or in
\* the opposite order.
InitPath ==
  \E N \in {3, 4} :
    \E f \in Injections(1..N, 1..N) :
      \E wd \in DetourWeights :
        \E rev \in BOOLEAN :
          LET es == IF N = 3 THEN PathEdges(f[1], f[2], f[3])
                    ELSE PathEdges(f[1], f[2], f[3])
                           \o DetourEdges(f[1], f[4], f[3], wd)
          IN Entry([k \in 1..N |-> k], IF rev THEN Reverse(es) ELSE es,
                   SetToSeq({f[1], f[2], f[3]}))

SpecPath == InitPath /\ [][Next]_vars

\* ------------------------------------------- calls on directed forests
\* What node k of N may have as its only outgoing edge: none (0), or an
\* edge to a later node with a positive weight.
OutOptions(k, N) ==
  {<<0, 1>>} \cup {<<j, w>> : j \in (k + 1)..N, w \in 1..MaxWeight}

\* The edges of the choice o, in the order of their sources.
RECURSIVE ForestEdges(_, _)
ForestEdges(o, k) ==
  IF k > Len(o) THEN <<>>
  ELSE (IF o[k][1] = 0 THEN <<>>
        ELSE <<[from |-> k, to |-> o[k][1], weight |-> o[k][2]]>>)
       \o ForestEdges(o, k + 1)

\* Calls on a directed graph of ForestNodes nodes in which every node has at
\* most one outgoing edge and every edge leads to a later node.
InitForest ==
  \E o \in [1..ForestNodes -> OutOptions(0, ForestNodes)] :
    \E R \in SUBSET (1..ForestNodes) :
      /\ \A k \in 1..ForestNodes : o[k] \in OutOptions(k, ForestNodes)
      /\ Entry([k \in 1..ForestNodes |-> k], ForestEdges(o, 1), SetToSeq(R))

SpecForest == InitForest /\ [][Next]_vars

\* --------------------------------------------- calls on a graph given twice
\* The edges es between the nodes numbered d higher.
Shifted(es, d) ==
  [k \in DOMAIN es |->
     [from |-> es[k].from + d, to |-> es[k].to + d, weight |-> es[k].weight]]

\* No bridge, or one edge from a node of the first copy to a node of the
\* second.
Bridges ==
  {<<>>} \cup {<<[from |-> u, to |-> v + TwinNodes, weight |-> w]>> :
                 u \in 1..TwinNodes, v \in 1..TwinNodes, w \in 1..MaxWeight}

\* Calls on two copies of a graph of TwinNodes nodes with edges of weight 1,
\* the same nodes required in both, alone or with a bridge between them.
InitTwin ==
  \E es \in SeqsUpTo(EdgeRecords(1..TwinNodes, {1}), MaxEdges) :
    \E R \in SUBSET (1..TwinNodes) :
      \E br \in Bridges :
        Entry([k \in 1..(2 * TwinNodes) |-> k],
              es \o Shifted(es, TwinNodes) \o br,
              SetToSeq(R \cup {r + TwinNodes : r \in R}))

SpecTwin == InitTwin /\ [][Next]_vars

\* ============================================================ the claims
RequiredSet == Range(required)

PositiveWeights == \A k \in DOMAIN edges : edges[k].weight >= 1

\* The caller's edge a reference names.
Deref(r) == edges[r[2]]

\* The nodes an undirected walk along the returned edges reaches from S.
RECURSIVE ResultReach(_)
ResultReach(S) ==
  LET T == S \cup {Deref(result[k]).to :
                     k \in {x \in DOMAIN result : Deref(result[x]).from \in S}}
             \cup {Deref(result[k]).from :
                     k \in {x \in DOMAIN result : Deref(result[x]).to \in S}}
  IN IF T = S THEN S ELSE ResultReach(T)

\* C1: on a connected graph with both directions of every edge and positive
\* weights, every required node is reachable from every other required node
\* along the returned edges read as undirected, whatever the repair step
\* does within its contract.
C1_RequiredConnected ==
  (pc = "done" /\ InputConnected(nodes, edges) /\ BothWays(edges)
     /\ PositiveWeights)
  => \A a \in RequiredSet : RequiredSet \subseteq ResultReach({a})

\* C2: every returned element is a reference to one of the caller's edge
\* objects, namely the back-reference of an annotated edge of the solution
\* that was copied from that very edge.
C2_OutputFromInput ==
  pc = "done" =>
    \A k \in DOMAIN result :
      /\ result[k] \in {EdgeRef(x) : x \in DOMAIN edges}
      /\ \E j \in DOMAIN soln :
           /\ xedges[soln[j]].edge = result[k]
           /\ nodes[xedges[soln[j]].from] = Deref(result[k]).from
           /\ nodes[xedges[soln[j]].to] = Deref(result[k]).to
           /\ xedges[soln[j]].weight = Deref(result[k]).weight

C2_Witness ==
  /\ pc = "done"
  /\ Len(result) >= 3
  /\ \E k \in DOMAIN result : result[k] # EdgeRef(soln[k])

\* The ordered endpoint pair of an annotated edge.
PairOf(e) == <<xedges[e].from, xedges[e].to>>

\* The positions of soln that hold the first occurrence of their pair.
FirstOccurrences ==
  {k \in DOMAIN soln : \A j \in 1..(k - 1) : PairOf(soln[j]) # PairOf(soln[k])}

\* C3: no two returned edges share their ordered (from, to) pair, and the
\* returned sequence is the solution's first occurrences of each pair, in
\* the solution's order.
C3_UniquePairs ==
  pc = "done" =>
    /\ \A k, m \in DOMAIN result :
         (Deref(result[k]).from = Deref(result[m]).from
            /\ Deref(result[k]).to = Deref(result[m]).to) => k = m
    /\ Len(result) = Cardinality(FirstOccurrences)
    /\ \A k \in FirstOccurrences :
         result[Cardinality({m \in FirstOccurrences : m <= k})]
           = xedges[soln[k]].edge

C3_Witness ==
  /\ pc = "done"
  /\ Len(result) >= 2
  /\ Len(result) < Len(soln)
  /\ \E k \in DOMAIN soln : k \notin FirstOccurrences /\ k < Len(soln)

\* The call of claim C4: the path A - B - C is the part of the graph between
\* required nodes.
RequiredPairs ==
  {{edges[k].from, edges[k].to} :
     k \in {x \in DOMAIN edges :
              edges[x].from \in RequiredSet /\ edges[x].to \in RequiredSet}}

\* C4: on the path A - B - C the output is one direction of A - B and one
\* direction of B - C, and nothing else.
C4_PathOnly ==
  pc = "done" =>
    /\ Len(result) = 2
    /\ {{Deref(result[k]).from, Deref(result[k]).to} : k \in DOMAIN result}
         = RequiredPairs

\* The call of claim C5: two required nodes, and one edge, from one to the
\* other.
TwoRequiredOneEdge ==
  /\ Len(required) = 2
  /\ RequiredSet \subseteq Range(nodes)
  /\ Len(edges) = 1
  /\ edges[1].from # edges[1].to
  /\ {edges[1].from, edges[1].to} = RequiredSet
  /\ edges[1].weight >= 1

\* C5: two required nodes joined by a single direct edge: the output is that
\* edge, whatever its weight.
C5_SingleEdge ==
  (pc = "done" /\ TwoRequiredOneEdge) => result = <<EdgeRef(1)>>

C5_Witness ==
  /\ pc = "done"
  /\ TwoRequiredOneEdge
  /\ edges[1].weight = MaxWeight
  /\ edges[1].from > edges[1].to
  /\ result = <<EdgeRef(1)>>

\* The call of claim C6.
SingleRequired == Len(required) = 1

\* C6: with a single required node the search adds no edge to the solution
\* and the output is empty.
C6_SingleRequiredEmpty ==
  SingleRequired => soln = <<>> /\ result = <<>>

C6_Witness ==
  /\ pc = "done"
  /\ SingleRequired
  /\ result = <<>>
  /\ \E k \in DOMAIN edges : edges[k].from = edges[k].to
  /\ \E k \in DOMAIN edges : edges[k].to = required[1] /\ edges[k].from # required[1]
  /\ \E k \in DOMAIN xnodes : xnodes[k].in_temporary_web /\ ~xnodes[k].reqd

\* line 123 is false, or the pass of lines 138-226 stepped no node.
ExitCondition ==
  \/ solved_reqds >= reqds
  \/ /\ ~fNonemptyFifo
     /\ \A n \in DOMAIN xnodes :
          xnodes[n].reqd => (xnodes[n].in_permanent_web \/ xnodes[n].fifo = <<>>)

\* C7: with positive weights the main loop is left, on connected and on
\* disconnected graphs, with cycles or without: solved_reqds has reached
\* reqds, or a whole pass found no required node outside the permanent web
\* with a non-empty queue.
C7_LoopExits ==
  (pc = "start" /\ ~BuildThrows /\ PositiveWeights)
    ~> (pc = "connect" /\ ExitCondition)

C7_Witness ==
  /\ pc = "connect"
  /\ PositiveWeights
  /\ solved_reqds < reqds
  /\ ExitCondition
  /\ \E a, b \in DOMAIN edges :
       /\ edges[a].from = edges[b].to
       /\ edges[a].to = edges[b].from
       /\ edges[a].from # edges[a].to
       /\ edges[a].weight = MaxWeight
  /\ \E n \in DOMAIN xnodes : xnodes[n].witness.path # <<>>

\* An edge or the required list names a node that is not in nodes.
Malformed ==
  \/ \E k \in DOMAIN edges :
       edges[k].from \notin Range(nodes) \/ edges[k].to \notin Range(nodes)
  \/ \E k \in DOMAIN required : required[k] \notin Range(nodes)

\* C8: a malformed call ends in an error and runs no step of the search.
C8_MalformedRejected ==
  Malformed => pc \in {"start", "error"}

\* C9: a call with an edge of weight zero or less ends in an error and runs
\* no step of the search.
C9_BadWeightRejected ==
  ~PositiveWeights => pc \in {"start", "error"}

\* ------------------------------------------------ the history of the pops
\* The sum of the weights of the edges of a path.
RECURSIVE PathWeight(_)
PathWeight(path) ==
  IF path = <<>> THEN 0
  ELSE xedges[Head(path)].weight + PathWeight(Tail(path))

\* The pops that expanded a partial path (lines 161-225).
Expansions == {k \in DOMAIN log : log[k].op = "expand"}

\* The pops before pop b that pushed the partial path of owner n with this
\* path back (lines 156-160).
RequeuesBefore(n, path, b) ==
  Cardinality({a \in 1..(b - 1) : /\ log[a].op = "requeue"
                                   /\ log[a].owner = n
                                   /\ log[a].path = path})

\* The weight of the edge a non-empty path ends with.
LastWeight(path) == xedges[path[Len(path)]].weight

\* C11: with positive weights, the partial paths of one owner are expanded
\* in non-decreasing order of their total weight: a path expanded before
\* another path of the same owner weighs no more than it.
C11_ArrivalOrder ==
  PositiveWeights =>
    \A a, b \in Expansions :
      (a < b /\ log[a].owner = log[b].owner)
        => PathWeight(log[a].path) <= PathWeight(log[b].path)

\* An owner expanded a path of more edges before a path of fewer edges, and
\* a lighter path before a heavier one.
C11_Witness ==
  /\ PositiveWeights
  /\ \E a, b \in Expansions :
       /\ a < b /\ log[a].owner = log[b].owner
       /\ Len(log[a].path) > Len(log[b].path)
       /\ Len(log[b].path) >= 1
  /\ \E a, b \in Expansions :
       /\ a < b /\ log[a].owner = log[b].owner
       /\ Len(log[a].path) >= 1
       /\ PathWeight(log[a].path) < PathWeight(log[b].path)

\* C12: a partial path pushed for an edge of positive weight W is popped W
\* times before it is expanded: W - 1 pops push it back with endweight one
\* less, the W-th pop expands it, and it is not popped again.
C12_PoppedWeightTimes ==
  /\ \A b \in Expansions :
       (log[b].path # <<>> /\ LastWeight(log[b].path) >= 1)
         => /\ RequeuesBefore(log[b].owner, log[b].path, b)
                 = LastWeight(log[b].path) - 1
            /\ \A c \in DOMAIN log :
                 (c > b /\ log[c].owner = log[b].owner)
                   => log[c].path # log[b].path
  /\ \A n \in DOMAIN xnodes : \A k \in DOMAIN xnodes[n].fifo :
       LET q == xnodes[n].fifo[k]
       IN (q.path # <<>> /\ LastWeight(q.path) >= 1)
            => q.endweight = LastWeight(q.path)
                               - RequeuesBefore(n, q.path, Len(log) + 1)

\* A partial path of an edge of weight two or more has been expanded, after
\* the pops that pushed it back.
C12_Witness ==
  \E b \in Expansions :
    /\ log[b].path # <<>>
    /\ LastWeight(log[b].path) >= 2
    /\ RequeuesBefore(log[b].owner, log[b].path, b) >= 1

\* The pop a step has just made, if it made one.
Popped == Len(log') = Len(log) + 1

LastPop == log'[Len(log')]

\* C13: a node in the permanent web stays in it and is out of the search:
\* it does not pop its own queue again, and no owner expands a partial path
\* whose point is in the permanent web.
C13_PermanentLeavesSearch ==
  [][/\ \A k \in DOMAIN xnodes :
          xnodes[k].in_permanent_web => xnodes'[k].in_permanent_web
     /\ Popped =>
          /\ ~xnodes[LastPop.owner].in_permanent_web
          /\ LastPop.op = "expand"
               => ~xnodes[LastPop.point].in_permanent_web]_vars

\* The step appended to soln during a pass.
MergeStep == pc = "for" /\ soln' # soln

\* C14: a pass makes at most one merge: the step that appends to soln ends
\* the pass, no later node is stepped in it, and the next pass, if there is
\* one, starts at the first node.
C14_OneMergePerPass ==
  [][/\ MergeStep => pc' = "outer" /\ i' = i
     /\ pc = "outer" => \/ pc' = "connect"
                        \/ pc' = "for" /\ i' = 1
     /\ (pc = "for" /\ pc' = "for" /\ i' > i) => soln' = soln]_vars

\* A merge has ended a pass before a later node that had a step to make.
C14_Witness ==
  /\ pc = "outer"
  /\ soln # <<>>
  /\ \E k \in DOMAIN xnodes : k > i /\ ~Skipped(k)

\* C15: every execution of the terminal merge (lines 190-200) adds exactly
\* one to solved_reqds; no execution adds two.
C15_TerminalAddsOne ==
  \A k \in DOMAIN log : log[k].merge = "terminal" => log[k].delta = 1

\* A terminal merge into a required node and a later terminal merge.
C15_Witness ==
  \E a, b \in DOMAIN log :
    /\ a < b
    /\ log[a].merge = "terminal"
    /\ log[b].merge = "terminal"
    /\ solved_reqds >= 2

\* C16: an owner expands at most one partial path per point.
C16_OncePerPoint ==
  \A a, b \in Expansions :
    (a < b /\ log[a].owner = log[b].owner) => log[a].point # log[b].point

\* C17: the witness of a node keeps naming the owner that first reached it.
C17_WitnessKept ==
  [][\A k \in DOMAIN xnodes :
       xnodes[k].witness # NullWitness
         => xnodes'[k].witness.node = xnodes[k].witness.node]_vars

\* The required nodes, as annotated nodes.
ReqdNodes == {k \in DOMAIN xnodes : xnodes[k].reqd}

\* C18: when the search is left with solved_reqds >= reqds, the required
\* nodes are in one component of soln, before the repair of line 241.
C18_SolvedMeansConnected ==
  (pc = "connect" /\ solved_reqds >= reqds)
    => \A a, b \in ReqdNodes : b \in Reach({a}, soln)

\* C19: during the search, both ends of every edge of soln are in the
\* permanent web.
C19_SolnEndsPermanent ==
  pc \in {"outer", "for", "connect"}
    => \A k \in EndpointsOf(soln) : xnodes[k].in_permanent_web

\* Every node of the temporary web has a witness naming a required node,
\* and the call has not thrown after the construction.
WitnessesSet ==
  /\ \A k \in DOMAIN xnodes :
       xnodes[k].in_temporary_web
         => /\ xnodes[k].witness # NullWitness
            /\ xnodes[xnodes[k].witness.node].reqd
  /\ pc = "error" => BuildThrows

\* C20: a node in the temporary web has a witness naming a required node,
\* the node stays in the temporary web, and line 209 throws on no witness.
C20_TemporaryHasWitness ==
  /\ []WitnessesSet
  /\ [][\A k \in DOMAIN xnodes :
           xnodes[k].in_temporary_web => xnodes'[k].in_temporary_web]_vars

\* Line 209 has read the witness of a node of another owner's temporary
\* web, and of a node of the owner's own.
C20_Witness ==
  /\ \E k \in DOMAIN log : log[k].merge = "collision"
  /\ \E k \in DOMAIN xnodes : \E j \in DOMAIN xnodes[k].outgoing :
       LET to == xedges[xnodes[k].outgoing[j]].to
       IN /\ xnodes[k].in_temporary_web
          /\ to # k
          /\ ~xnodes[to].reqd
          /\ xnodes[to].witness.node = xnodes[k].witness.node
====
